---- MODULE Spec2Model ----
(***************************************************************************)
(* A model of core/generator.py (AutoTestGenAI): the pipeline              *)
(*   extract_srs_text -> get_testcases_from_claude -> extract_component    *)
(*   -> parse_markdown_table -> fill_excel_template                        *)
(* and of its pure helpers.                                                *)
(*                                                                         *)
(* A Python str is a sequence of symbols.  A symbol is one character, or   *)
(* one of the words the code looks for as a whole ("Test Case ID",         *)
(* "Component", ...), written as one symbol so that the texts stay short.  *)
(* Every string operation below works on such sequences the way the        *)
(* Python operation works on characters.                                   *)
(***************************************************************************)
EXTENDS Integers, Sequences, FiniteSets, TLC

VARIABLES
    pc,            \* position in the function that is running
    cell_in,       \* clean_cell: the raw cell
    cleaned,       \* clean_cell: the value returned by the last call
    prev_cleaned,  \* clean_cell: the value returned by the call before it
    calls,         \* clean_cell: number of calls applied in a row
    md_full,       \* the model's response text (md_full_text / md_full)
    component,     \* the value returned by extract_component
    test_cases,    \* the list returned by parse_markdown_table
    err,           \* the exception that ended the job ("" when none)
    template,      \* the workbook file at template_path
    ws,            \* the in-memory worksheet wb["Testcases"]
    header_cell,   \* the cell set_header / the fallback wrote (<<0, 0>>: none yet)
    row_i,         \* fill_excel_template: index of the next record to write
    output,        \* the workbook file at output_path
    doc_ok,        \* whether docx.Document(doc_path) can read the document
    srs_text,      \* the text returned by extract_srs_text
    api_key,       \* os.getenv("ANTHROPIC_API_KEY")
    requests,      \* number of requests.post calls issued
    http,          \* outcome of the request: 0 none yet, -1 timed out, else the status
    trace          \* the stages entered so far, in order

vars == <<pc, cell_in, cleaned, prev_cleaned, calls, md_full, component,
          test_cases, err, template, ws, header_cell, row_i, output, doc_ok,
          srs_text, api_key, requests, http, trace>>

----------------------------------------------------------------------------
(* Bounds of the instances *)

MaxPieces == 4      \* a raw cell is a concatenation of at most this many pieces
MaxCalls == 2       \* clean_cell is applied at most this many times in a row

----------------------------------------------------------------------------
(* Python str operations *)

NL == "\n"
BR == <<"<", "b", "r", ">">>          \* the text <br>
BSN == <<"\\", "n">>                  \* a backslash followed by the letter n

\* str.isspace of one character
WhiteSpace == {" ", NL}

Min(S) == CHOOSE x \in S : \A y \in S : x <= y
Max(S) == CHOOSE x \in S : \A y \in S : x >= y

\* s[i:].startswith(pat), i counted from 1
StartsWithAt(s, i, pat) ==
    /\ i + Len(pat) - 1 <= Len(s)
    /\ \A k \in 1..Len(pat) : s[i + k - 1] = pat[k]

\* pat in s
Contains(s, pat) == \E i \in 1..(Len(s) + 1) : StartsWithAt(s, i, pat)

RECURSIVE ReplaceFrom(_, _, _, _)
ReplaceFrom(s, old, new, i) ==
    IF i > Len(s) THEN <<>>
    ELSE IF StartsWithAt(s, i, old)
         THEN new \o ReplaceFrom(s, old, new, i + Len(old))
         ELSE <<s[i]>> \o ReplaceFrom(s, old, new, i + 1)

\* a replace that rewrites only the first occurrence
replace_first(s, old, new) ==
    LET hits == {i \in 1..Len(s) : StartsWithAt(s, i, old)}
    IN  IF hits = {} THEN s
        ELSE LET i == Min(hits)
             IN  SubSeq(s, 1, i - 1) \o new \o SubSeq(s, i + Len(old), Len(s))

\* s.replace(old, new): every non-overlapping occurrence, left to right
replace(s, old, new) == ReplaceFrom(s, old, new, 1)

\* s.strip()
strip(s) ==
    LET keep == {i \in 1..Len(s) : s[i] \notin WhiteSpace}
    IN  IF keep = {} THEN <<>> ELSE SubSeq(s, Min(keep), Max(keep))

\* parse_markdown_table.clean_cell
clean_cell(value) ==
    IF value = <<>> THEN <<>>
    ELSE strip(replace(replace(value, BR, <<NL>>), BSN, <<NL>>))

----------------------------------------------------------------------------
(* The raw cells clean_cell is applied to *)

CellPieces ==
    { <<"<">>, <<"b">>, <<"r">>, <<">">>, <<"\\">>, <<"n">>, <<" ">>, <<NL>>,
      <<"a">>, BR, BSN }

RECURSIVE Concats(_, _)
Concats(pieces, n) ==
    IF n = 0 THEN {<<>>}
    ELSE LET shorter == Concats(pieces, n - 1)
         IN  shorter \cup {p \o q : p \in shorter, q \in pieces}

----------------------------------------------------------------------------
(* Values of the variables a specification does not use *)

NoCell == <<0, 0>>

IdleClean ==
    /\ cell_in = <<>> /\ cleaned = <<>> /\ prev_cleaned = <<>> /\ calls = 0

IdleParse ==
    /\ md_full = <<>> /\ component = <<>> /\ test_cases = <<>>

IdleFill ==
    /\ template = [sheet |-> FALSE, cells |-> <<>>] /\ ws = <<>>
    /\ header_cell = NoCell /\ row_i = 0
    /\ output = [saved |-> FALSE, cells |-> <<>>]

IdleJob ==
    /\ doc_ok = TRUE /\ srs_text = <<>> /\ api_key = "" /\ requests = 0 /\ http = 0
    /\ trace = <<>> /\ err = ""

----------------------------------------------------------------------------
(* SpecClean: clean_cell applied again and again to one raw cell *)

InitClean ==
    /\ pc = "clean"
    /\ cell_in \in Concats(CellPieces, MaxPieces)
    /\ cleaned = <<>> /\ prev_cleaned = <<>> /\ calls = 0
    /\ IdleParse /\ IdleFill /\ IdleJob

CleanCell ==
    /\ pc = "clean"
    /\ calls < MaxCalls
    /\ cleaned' = clean_cell(IF calls = 0 THEN cell_in ELSE cleaned)
    /\ prev_cleaned' = cleaned
    /\ calls' = calls + 1
    /\ UNCHANGED <<pc, cell_in, md_full, component, test_cases, err, template,
                   ws, header_cell, row_i, output, doc_ok, srs_text, api_key,
                   requests, http, trace>>

NextClean == CleanCell

SpecClean == InitClean /\ [][NextClean]_vars

\* C8: normalising a normalised cell changes nothing, and a normalised cell
\* holds neither <br> nor a backslash followed by n.
C8_CleanCellIdempotent ==
    /\ calls >= 1 => ~Contains(cleaned, BR) /\ ~Contains(cleaned, BSN)
    /\ calls >= 2 => cleaned = prev_cleaned

C8_Witness ==
    /\ calls = 2
    /\ Contains(cell_in, BR) /\ Contains(cell_in, BSN)
    /\ cleaned # cell_in /\ cleaned # <<>>
    /\ NL \in {cleaned[i] : i \in 1..Len(cleaned)}

----------------------------------------------------------------------------
(* extract_component: re.search(r"(?im)^\s*Component\s*:\s*(.+?)\s*$", text) *)

MaxTextPieces == 5  \* a response is a concatenation of at most this many pieces

\* str.lower of one symbol (the flag (?i) compares lower-cased)
Lower(c) ==
    CASE c = "Component" -> "component"
      [] c = "COMPONENT" -> "component"
      [] OTHER -> c

\* s.lower()
lower(s) == [i \in 1..Len(s) |-> Lower(s[i])]

\* "^" under (?m): at the start of the text and after every line break
LineStart(s, p) == p = 1 \/ s[p - 1] = NL

\* a greedy \s* followed by a symbol that is no white space: the position
\* after the longest run of white space that starts at p
SkipSpaces(s, p) ==
    Min({q \in p..(Len(s) + 1) : q = Len(s) + 1 \/ s[q] \notin WhiteSpace})

\* "\s*$" under (?m) matches from position e on: white space up to the end
\* of the text or up to a line break
SpacesThenEnd(s, e) ==
    \E q \in e..(Len(s) + 1) :
        /\ \A k \in e..(q - 1) : s[k] \in WhiteSpace
        /\ q = Len(s) + 1 \/ s[q] = NL

\* "(.+?)\s*$" from g on: the lazy group takes the fewest symbols, none of
\* them a line break, after which "\s*$" matches; 0 when there is no match
GroupEnd(s, g) ==
    LET ends == {e \in g..Len(s) :
                    /\ \A k \in g..e : s[k] # NL
                    /\ SpacesThenEnd(s, e + 1)}
    IN  IF ends = {} THEN 0 ELSE Min(ends)

\* "\s*(.+?)\s*$" from a on: the greedy \s* gives back white space until
\* the rest matches; the start of the group, 0 when there is no match
GroupStart(s, a) ==
    LET starts == {g \in a..Len(s) :
                      /\ \A k \in a..(g - 1) : s[k] \in WhiteSpace
                      /\ GroupEnd(s, g) # 0}
    IN  IF starts = {} THEN 0 ELSE Max(starts)

\* position of the ":" of a match that starts at p, 0 when none
ColonOfMatchAt(s, p) ==
    IF ~LineStart(s, p) THEN 0
    ELSE LET q == SkipSpaces(s, p)
         IN  IF q > Len(s) \/ Lower(s[q]) # "component" THEN 0
             ELSE LET c == SkipSpaces(s, q + 1)
                  IN  IF c > Len(s) \/ s[c] # ":" THEN 0
                      ELSE IF GroupStart(s, c + 1) = 0 THEN 0 ELSE c

Unknown == <<"Unknown">>

\* extract_component(md_full_text)
extract_component(text) ==
    LET hits == {p \in 1..(Len(text) + 1) : ColonOfMatchAt(text, p) # 0}
    IN  IF hits = {} THEN Unknown
        ELSE LET c == ColonOfMatchAt(text, Min(hits))
                 g == GroupStart(text, c + 1)
             IN  strip(SubSeq(text, g, GroupEnd(text, g)))

\* str.split(sep) for a one-symbol separator
RECURSIVE SplitFrom(_, _, _, _)
SplitFrom(s, sep, i, cur) ==
    IF i > Len(s) THEN <<cur>>
    ELSE IF s[i] = sep
         THEN <<cur>> \o SplitFrom(s, sep, i + 1, <<>>)
         ELSE SplitFrom(s, sep, i + 1, Append(cur, s[i]))

split(s, sep) == SplitFrom(s, sep, 1, <<>>)

\* s.splitlines(): the lines without their line breaks; a text that ends
\* with a line break has no empty last line
splitlines(s) ==
    LET parts == split(s, NL)
    IN  IF parts[Len(parts)] = <<>> THEN SubSeq(parts, 1, Len(parts) - 1)
        ELSE parts

----------------------------------------------------------------------------
(* SpecComponent: extract_component applied to one response *)

TextPieces ==
    { <<"Component">>, <<"COMPONENT">>, <<":">>, <<" ">>, <<NL>>, <<"a">>,
      <<"b">> }

InitComponent ==
    /\ pc = "extract_component"
    /\ md_full \in Concats(TextPieces, MaxTextPieces)
    /\ component = <<>> /\ test_cases = <<>>
    /\ IdleClean /\ IdleFill /\ IdleJob

\* generate_testcases: component = extract_component(md_full)
ExtractComponent ==
    /\ pc = "extract_component"
    /\ component' = extract_component(md_full)
    /\ trace' = Append(trace, "extract_component")
    /\ pc' = "parse_markdown_table"
    /\ UNCHANGED <<cell_in, cleaned, prev_cleaned, calls, md_full, test_cases,
                   err, template, ws, header_cell, row_i, output, doc_ok,
                   srs_text, api_key, requests, http>>

NextComponent == ExtractComponent

SpecComponent == InitComponent /\ [][NextComponent]_vars

Extracted == "extract_component" \in {trace[i] : i \in 1..Len(trace)}

\* A line that carries the label: optional white space, "Component" in any
\* case, optional white space, a colon.  The position of its colon, else 0.
LabelColon(line) ==
    LET q == SkipSpaces(line, 1)
    IN  IF q > Len(line) \/ Lower(line[q]) # "component" THEN 0
        ELSE LET c == SkipSpaces(line, q + 1)
             IN  IF c > Len(line) \/ line[c] # ":" THEN 0 ELSE c

\* The trimmed text after the colon of a line that carries the label
LabelValue(line) ==
    strip(SubSeq(line, LabelColon(line) + 1, Len(line)))

\* C4: the component is the trimmed value of the first line that carries the
\* label; it is "Unknown" when no line carries the label; and it is never
\* taken from another line than one carrying the label.
C4_ComponentFromFirstLabelLine ==
    Extracted =>
        LET lines == splitlines(md_full)
            labelled == {i \in 1..Len(lines) : LabelColon(lines[i]) # 0}
        IN  /\ labelled = {} => component = Unknown
            /\ (labelled # {} /\ LabelValue(lines[Min(labelled)]) # <<>>)
                   => component = LabelValue(lines[Min(labelled)])
            /\ \/ component = Unknown
               \/ \E i \in labelled : component = LabelValue(lines[i])

\* C9: the component name is never empty and never holds a line break.
C9_ComponentNonEmptySingleLine ==
    Extracted =>
        /\ component # <<>>
        /\ \A i \in 1..Len(component) : component[i] # NL

----------------------------------------------------------------------------
(* parse_markdown_table *)

MaxLines == 4       \* a response to parse has at most this many lines

HeaderNotFound == "Markdown table header not found."
IncompleteTable == "Incomplete markdown table."
NoTestCases == "No test cases parsed."

\* c in s, for one symbol c
HasSym(s, c) == \E i \in 1..Len(s) : s[i] = c

\* seq[1:-1]
Inner(seq) == SubSeq(seq, 2, Len(seq) - 1)

\* the loop that sets start_idx: the first line holding both "|" and
\* "Test Case ID"; 0 stands for None
header_index(lines) ==
    LET hits == {i \in 1..Len(lines) :
                    HasSym(lines[i], "|") /\ HasSym(lines[i], "Test Case ID")}
    IN  IF hits = {} THEN 0 ELSE Min(hits)

\* the loop that fills table_lines from lines[start_idx:]
RECURSIVE CollectTable(_, _, _)
CollectTable(lines, i, acc) ==
    IF i > Len(lines) THEN acc
    ELSE IF HasSym(lines[i], "|") THEN CollectTable(lines, i + 1, Append(acc, lines[i]))
    ELSE IF acc # <<>> THEN acc
    ELSE CollectTable(lines, i + 1, acc)

\* headers = [h.strip() for h in table_lines[0].split("|")[1:-1]]
header_fields(line) ==
    LET segs == Inner(split(line, "|"))
    IN  [i \in 1..Len(segs) |-> strip(segs[i])]

\* cells = [clean_cell(c) for c in row.split("|")[1:-1]]
row_cells(row) ==
    LET segs == Inner(split(row, "|"))
    IN  [i \in 1..Len(segs) |-> clean_cell(segs[i])]

\* dict(zip(headers, cells)): zip stops at the shorter list, and the last
\* cell under a name is the one kept
zip_dict(headers, cells) ==
    LET n == IF Len(cells) < Len(headers) THEN Len(cells) ELSE Len(headers)
    IN  [k \in {headers[i] : i \in 1..n} |->
            cells[Max({i \in 1..n : headers[i] = k})]]

\* an admission test that also lets shorter rows in
admitted_if_not_longer(headers, cells) == Len(cells) <= Len(headers)

\* if len(cells) == len(headers)
admitted(headers, cells) == Len(cells) = Len(headers)

\* the loop over table_lines[2:]
RECURSIVE ParseRows(_, _, _)
ParseRows(headers, rows, i) ==
    IF i > Len(rows) THEN <<>>
    ELSE LET cells == row_cells(rows[i])
         IN  IF admitted(headers, cells)
             THEN <<zip_dict(headers, cells)>> \o ParseRows(headers, rows, i + 1)
             ELSE ParseRows(headers, rows, i + 1)

\* a parse that returns the empty list instead of raising
parse_returning_empty(text) ==
    LET lines == splitlines(text)
        start_idx == header_index(lines)
    IN  IF start_idx = 0 THEN [err |-> HeaderNotFound, cases |-> <<>>]
        ELSE LET table_lines == CollectTable(lines, start_idx, <<>>)
             IN  IF Len(table_lines) < 3
                 THEN [err |-> IncompleteTable, cases |-> <<>>]
                 ELSE [err |-> "",
                       cases |-> ParseRows(header_fields(table_lines[1]),
                                           SubSeq(table_lines, 3, Len(table_lines)),
                                           1)]

\* parse_markdown_table(md_full_text): the exception raised ("" when none)
\* and the list returned
parse_markdown_table(text) ==
    LET lines == splitlines(text)
        start_idx == header_index(lines)
    IN  IF start_idx = 0 THEN [err |-> HeaderNotFound, cases |-> <<>>]
        ELSE LET table_lines == CollectTable(lines, start_idx, <<>>)
             IN  IF Len(table_lines) < 3
                 THEN [err |-> IncompleteTable, cases |-> <<>>]
                 ELSE LET test_cases_ ==
                              ParseRows(header_fields(table_lines[1]),
                                        SubSeq(table_lines, 3, Len(table_lines)),
                                        1)
                      IN  IF test_cases_ = <<>>
                          THEN [err |-> NoTestCases, cases |-> <<>>]
                          ELSE [err |-> "", cases |-> test_cases_]

----------------------------------------------------------------------------
(* SpecParse: parse_markdown_table applied to one response *)

\* build_prompt: the seven column names the model is told to use
SevenFields ==
    << <<"Test Case ID">>, <<"Preconditions">>, <<"Test Condition">>,
       <<"Steps with description">>, <<"Expected Result">>,
       <<"Actual Result">>, <<"Remarks">> >>

\* a markdown row framed by "|"
RECURSIVE RowOf(_)
RowOf(cells) ==
    IF cells = <<>> THEN <<"|">>
    ELSE <<"|">> \o cells[1] \o RowOf(SubSeq(cells, 2, Len(cells)))

Padded(name) == <<" ">> \o name \o <<" ">>

HeaderLine ==
    RowOf([i \in 1..7 |-> IF i = 1 THEN Padded(SevenFields[i]) ELSE SevenFields[i]])
SepLine == RowOf([i \in 1..7 |-> <<"-">>])
RowA == RowOf(<< <<" ", "1", " ">>, <<"a">>, <<"b", "<", "b", "r", ">", "c">>,
                 <<>>, <<" ">>, <<"x", "\\", "n">>, <<"y">> >>)
RowB == RowOf(<< <<"2">>, <<>>, <<"c">>, <<>>, <<"e">>, <<>>, <<" ", "z">> >>)
Row6 == RowOf(<< <<"3">>, <<"a">>, <<>>, <<"c">>, <<>>, <<"e">> >>)
\* eight cells and no closing "|"
RowOpen == RowOf(<< <<"4">>, <<"a">>, <<>>, <<"c">>, <<>>, <<"e">>, <<"f">> >>)
               \o <<"g">>
ProseLine == <<"x", " ", "y">>
ProseWithToken == <<"x", " ", "Test Case ID", " ", "|", " ", "y">>
TokenLine == <<"x", " ", "Test Case ID">>

ParseLines ==
    {HeaderLine, SepLine, RowA, RowB, Row6, RowOpen, ProseLine, ProseWithToken,
     TokenLine}

RECURSIVE Join(_)
Join(lines) ==
    IF lines = <<>> THEN <<>>
    ELSE IF Len(lines) = 1 THEN lines[1]
    ELSE lines[1] \o <<NL>> \o Join(SubSeq(lines, 2, Len(lines)))

ParseResponses ==
    {Join(ls) : ls \in UNION {[1..n -> ParseLines] : n \in 0..MaxLines}}

InitParse ==
    /\ pc = "parse_markdown_table"
    /\ md_full \in ParseResponses
    /\ component = <<>> /\ test_cases = <<>>
    /\ IdleClean /\ IdleFill /\ IdleJob

\* a job that catches the parse error and goes on with what it has
ParseTableAndGoOn ==
    /\ pc = "parse_markdown_table"
    /\ LET r == parse_markdown_table(md_full)
       IN  /\ err' = r.err
           /\ test_cases' = r.cases
           /\ pc' = "fill_excel_template"
    /\ trace' = Append(trace, "parse_markdown_table")
    /\ UNCHANGED <<cell_in, cleaned, prev_cleaned, calls, md_full, component,
                   template, ws, header_cell, row_i, output, doc_ok, srs_text,
                   api_key, requests, http>>

\* generate_testcases: test_cases = parse_markdown_table(md_full)
ParseTable ==
    /\ pc = "parse_markdown_table"
    /\ LET r == parse_markdown_table(md_full)
       IN  /\ err' = r.err
           /\ test_cases' = r.cases
           /\ pc' = IF r.err = "" THEN "fill_excel_template" ELSE "failed"
    /\ trace' = Append(trace, "parse_markdown_table")
    /\ UNCHANGED <<cell_in, cleaned, prev_cleaned, calls, md_full, component,
                   template, ws, header_cell, row_i, output, doc_ok, srs_text,
                   api_key, requests, http>>

NextParse == ParseTable

SpecParse == InitParse /\ [][NextParse]_vars

Parsed == "parse_markdown_table" \in {trace[i] : i \in 1..Len(trace)}

\* A well-formed table: its rows
Framed(line) == Len(line) >= 2 /\ line[1] = "|" /\ line[Len(line)] = "|"

NaturalCells(line) == Inner(split(line, "|"))

IsHeaderRow(line) ==
    /\ Framed(line)
    /\ Len(NaturalCells(line)) = 7
    /\ \A i \in 1..7 : strip(NaturalCells(line)[i]) = SevenFields[i]

IsSepRow(line) ==
    /\ Framed(line)
    /\ \A i \in 1..Len(NaturalCells(line)) :
           LET c == NaturalCells(line)[i]
           IN  c # <<>> /\ \A k \in 1..Len(c) : c[k] = "-"

\* the last line of the run of table lines that starts at line h
TableEnd(lines, h) ==
    Max({j \in h..Len(lines) : \A k \in h..j : HasSym(lines[k], "|")})

\* a header row, a separator row and at least one more table line
WellFormedAt(lines, h) ==
    /\ h >= 1 /\ h + 2 <= Len(lines)
    /\ IsHeaderRow(lines[h])
    /\ IsSepRow(lines[h + 1])
    /\ HasSym(lines[h + 2], "|")

\* a row whose cell count (the segments between its first and last "|") is
\* the header's
ValidRow(line) == Len(NaturalCells(line)) = 7

\* the record of a valid row: the seven names mapped to its normalised cells
RecordOf(line) ==
    [k \in {SevenFields[i] : i \in 1..7} |->
        clean_cell(NaturalCells(line)[CHOOSE i \in 1..7 : SevenFields[i] = k])]

\* the records of the valid rows among lines[from..to], in order
RECURSIVE ExpectedRecords(_, _, _)
ExpectedRecords(lines, from, to) ==
    IF from > to THEN <<>>
    ELSE (IF ValidRow(lines[from]) THEN <<RecordOf(lines[from])>> ELSE <<>>)
         \o ExpectedRecords(lines, from + 1, to)

\* the parse returned exactly the records of the valid rows of the table at
\* line h (when there is none the parse raises and returns no record)
ParsedTableAt(lines, h) ==
    LET expected == ExpectedRecords(lines, h + 2, TableEnd(lines, h))
    IN  IF expected = <<>> THEN err = NoTestCases /\ test_cases = <<>>
        ELSE err = "" /\ test_cases = expected

FirstBoth(lines) ==
    LET hits == {i \in 1..Len(lines) :
                    HasSym(lines[i], "|") /\ HasSym(lines[i], "Test Case ID")}
    IN  IF hits = {} THEN 0 ELSE Min(hits)

\* C1 as stated: whenever the response holds a well-formed table, the parse
\* returns one record per data row of (the first such) table whose cell count
\* is the header's, in row order, and nothing else.
C1_Original ==
    Parsed =>
        LET lines == splitlines(md_full)
            tables == {h \in 1..Len(lines) : WellFormedAt(lines, h)}
        IN  tables # {} => ParsedTableAt(lines, Min(tables))

\* C1 as amended: the same, for a response whose first line holding both "|"
\* and "Test Case ID" is the header row of the well-formed table.
C1_RecordsOfValidRows ==
    Parsed =>
        LET lines == splitlines(md_full)
            h == FirstBoth(lines)
        IN  WellFormedAt(lines, h) => ParsedTableAt(lines, h)

C1_Witness ==
    /\ Parsed /\ err = ""
    /\ LET lines == splitlines(md_full)
           h == FirstBoth(lines)
       IN  /\ WellFormedAt(lines, h)
           /\ \E j \in (h + 2)..Len(lines) : HasSym(lines[j], "|") /\ ~ValidRow(lines[j])
           /\ Len(test_cases) = 1
           /\ test_cases[1][<<"Test Case ID">>] = <<"1">>

\* C2: a response with no line holding both "|" and "Test Case ID" makes the
\* parse raise the header-not-found error; and a parse that raises nothing
\* returns at least one record.
C2_HeaderErrorAndNeverEmpty ==
    Parsed =>
        LET lines == splitlines(md_full)
        IN  /\ (\A i \in 1..Len(lines) :
                    ~(HasSym(lines[i], "|") /\ HasSym(lines[i], "Test Case ID")))
                => err = HeaderNotFound /\ test_cases = <<>>
            /\ err = "" => test_cases # <<>>
            /\ err # "" => pc = "failed"

C2_Witness ==
    /\ Parsed /\ err = HeaderNotFound /\ pc = "failed"
    /\ LET lines == splitlines(md_full)
       IN  /\ \E i \in 1..Len(lines) : HasSym(lines[i], "Test Case ID")
           /\ \E i \in 1..Len(lines) : HasSym(lines[i], "|")

----------------------------------------------------------------------------
(* fill_excel_template *)

MaxTemplateCells == 2   \* a template sheet holds at most this many cells
MaxRecords == 2         \* a list of records to write has at most this many

ScanRows == 9           \* for r in range(1, 10)
ScanCols == 11          \* for c in range(1, 12)
start_row == 6
FallbackCell == <<2, 5>>    \* ws["E2"]

NoSheet == "Worksheet Testcases does not exist."

\* A cell value: a str, or something that is no str (a number, None)
StrVal(s) == [str |-> TRUE, v |-> s]
NumVal == [str |-> FALSE, v |-> <<"7">>]
NoneVal == [str |-> FALSE, v |-> <<>>]

\* ws.cell(row=r, column=c).value; a sheet holds the cells that were set
CellValue(sheet, rc) == IF rc \in DOMAIN sheet THEN sheet[rc] ELSE NoneVal

\* cell.value = val
Put(sheet, rc, val) ==
    [x \in DOMAIN sheet \cup {rc} |-> IF x = rc THEN val ELSE sheet[x]]

\* ws.cell(row=r, column=c, value=val): openpyxl assigns only a value that
\* is not None
PutIfNotNone(sheet, rc, val) == IF val = NoneVal THEN sheet ELSE Put(sheet, rc, val)

\* tc.get(name)
get(tc, name) == IF name \in DOMAIN tc THEN StrVal(tc[name]) ELSE NoneVal

\* s.startswith(prefix)
startswith(s, prefix) == StartsWithAt(s, 1, prefix)

\* s.rstrip(":")
rstrip_colon(s) ==
    LET keep == {i \in 1..Len(s) : s[i] # ":"}
    IN  IF keep = {} THEN <<>> ELSE SubSeq(s, 1, Max(keep))

\* s.split(":", 1)[0]
before_colon(s) ==
    LET colons == {i \in 1..Len(s) : s[i] = ":"}
    IN  IF colons = {} THEN s ELSE SubSeq(s, 1, Min(colons) - 1)

\* the test of set_header on one cell
is_label_cell(sheet, rc, label_low) ==
    /\ CellValue(sheet, rc).str
    /\ startswith(lower(CellValue(sheet, rc).v), label_low \o <<":">>)

\* a scan that walks the region column by column
scan_by_column(sheet, label_low) ==
    LET cols == {c \in 1..ScanCols :
                    \E r \in 1..ScanRows : is_label_cell(sheet, <<r, c>>, label_low)}
    IN  IF cols = {} THEN <<0, 0>>
        ELSE LET c == Min(cols)
             IN  <<Min({r \in 1..ScanRows : is_label_cell(sheet, <<r, c>>, label_low)}), c>>

\* the two loops of set_header, rows outside and columns inside: the first
\* cell that passes the test, <<0, 0>> when the loops end without one
scan(sheet, label_low) ==
    LET rows == {r \in 1..ScanRows :
                    \E c \in 1..ScanCols : is_label_cell(sheet, <<r, c>>, label_low)}
    IN  IF rows = {} THEN <<0, 0>>
        ELSE LET r == Min(rows)
             IN  <<r, Min({c \in 1..ScanCols : is_label_cell(sheet, <<r, c>>, label_low)})>>

\* set_header(label, value): the sheet it leaves and the cell it rewrote
\* (<<0, 0>> when it returns False)
set_header(sheet, label, value) ==
    LET label_low == rstrip_colon(lower(label))
        hit == scan(sheet, label_low)
    IN  IF hit = <<0, 0>> THEN [sheet |-> sheet, cell |-> hit]
        ELSE [sheet |-> Put(sheet, hit,
                            StrVal(before_colon(sheet[hit].v) \o <<":", " ">> \o value)),
              cell |-> hit]

\* the seven assignments of the loop body that mix up two columns
write_record_swapped(sheet, row, tc) ==
    LET w2 == PutIfNotNone(sheet, <<row, 2>>, get(tc, <<"Test Case ID">>))
        w3 == PutIfNotNone(w2, <<row, 3>>, get(tc, <<"Test Condition">>))
        w4 == PutIfNotNone(w3, <<row, 4>>, get(tc, <<"Preconditions">>))
        w5 == PutIfNotNone(w4, <<row, 5>>, get(tc, <<"Steps with description">>))
        w6 == PutIfNotNone(w5, <<row, 6>>, get(tc, <<"Expected Result">>))
        w7 == PutIfNotNone(w6, <<row, 7>>, get(tc, <<"Actual Result">>))
    IN  PutIfNotNone(w7, <<row, 8>>, get(tc, <<"Remarks">>))

\* the seven ws.cell(row=row, column=..., value=tc.get(...)) of the loop body
write_record(sheet, row, tc) ==
    LET w2 == PutIfNotNone(sheet, <<row, 2>>, get(tc, <<"Test Case ID">>))
        w3 == PutIfNotNone(w2, <<row, 3>>, get(tc, <<"Preconditions">>))
        w4 == PutIfNotNone(w3, <<row, 4>>, get(tc, <<"Test Condition">>))
        w5 == PutIfNotNone(w4, <<row, 5>>, get(tc, <<"Steps with description">>))
        w6 == PutIfNotNone(w5, <<row, 6>>, get(tc, <<"Expected Result">>))
        w7 == PutIfNotNone(w6, <<row, 7>>, get(tc, <<"Actual Result">>))
    IN  PutIfNotNone(w7, <<row, 8>>, get(tc, <<"Remarks">>))

NoFile == [saved |-> FALSE, cells |-> <<>>]

\* wb = openpyxl.load_workbook(template_path); ws = wb["Testcases"]
FillLoad ==
    /\ pc = "fill_excel_template"
    /\ trace' = Append(trace, "fill_excel_template")
    /\ IF template.sheet
       THEN /\ ws' = template.cells
            /\ pc' = "set_header"
            /\ err' = err
       ELSE /\ err' = NoSheet
            /\ pc' = "failed"
            /\ ws' = ws
    /\ UNCHANGED <<cell_in, cleaned, prev_cleaned, calls, md_full, component,
                   test_cases, template, header_cell, row_i, output, doc_ok,
                   srs_text, api_key, requests, http>>

\* if not set_header("Component", component_name): ws["E2"] = ...
FillHeader ==
    /\ pc = "set_header"
    /\ LET r == set_header(ws, <<"Component">>, component)
       IN  IF r.cell # <<0, 0>>
           THEN ws' = r.sheet /\ header_cell' = r.cell
           ELSE /\ ws' = Put(ws, FallbackCell,
                             StrVal(<<"Component", ":", " ">> \o component))
                /\ header_cell' = FallbackCell
    /\ row_i' = 0
    /\ pc' = "write_rows"
    /\ UNCHANGED <<cell_in, cleaned, prev_cleaned, calls, md_full, component,
                   test_cases, err, template, output, doc_ok, srs_text, api_key,
                   requests, http, trace>>

\* one turn of: for i, tc in enumerate(test_cases)
FillRow ==
    /\ pc = "write_rows"
    /\ row_i < Len(test_cases)
    /\ ws' = write_record(ws, start_row + row_i, test_cases[row_i + 1])
    /\ row_i' = row_i + 1
    /\ UNCHANGED <<pc, cell_in, cleaned, prev_cleaned, calls, md_full, component,
                   test_cases, err, template, header_cell, output, doc_ok,
                   srs_text, api_key, requests, http, trace>>

\* wb.save(output_path)
FillSave ==
    /\ pc = "write_rows"
    /\ row_i = Len(test_cases)
    /\ output' = [saved |-> TRUE, cells |-> ws]
    /\ pc' = "done"
    /\ UNCHANGED <<cell_in, cleaned, prev_cleaned, calls, md_full, component,
                   test_cases, err, template, ws, header_cell, row_i, doc_ok,
                   srs_text, api_key, requests, http, trace>>

----------------------------------------------------------------------------
(* SpecFill: fill_excel_template on parsed records, a template and a name *)

TemplatePositions ==
    {<<2, 5>>, <<3, 2>>, <<6, 2>>, <<7, 8>>, <<9, 11>>, <<10, 1>>}

TemplateValues ==
    { StrVal(<<"Component", ":", " ", "o">>), StrVal(<<"COMPONENT", ":">>),
      StrVal(<<"T", ":", " ", "t">>), StrVal(<<" ", "Component", ":">>), NumVal }

TemplateSheets ==
    UNION {[P -> TemplateValues] :
              P \in {Q \in SUBSET TemplatePositions : Cardinality(Q) <= MaxTemplateCells}}

Templates ==
    {[sheet |-> TRUE, cells |-> f] : f \in TemplateSheets}
        \cup {[sheet |-> FALSE, cells |-> <<>>]}

\* a header row whose last column has another name
OtherHeaderLine ==
    RowOf([i \in 1..7 |-> IF i = 7 THEN <<"Notes">> ELSE SevenFields[i]])

\* tables of 1..MaxRecords rows under the seven names, and one table under
\* the other header
FillTables ==
    {Join(<<HeaderLine, SepLine>> \o [i \in 1..n |-> IF i % 2 = 1 THEN RowA ELSE RowB])
        : n \in 1..MaxRecords}
    \cup {Join(<<OtherHeaderLine, SepLine, RowB>>)}

ComponentNames == {<<"L", " ", "M">>, Unknown}

InitFill ==
    /\ pc = "fill_excel_template"
    /\ md_full \in FillTables
    /\ test_cases = parse_markdown_table(md_full).cases
    /\ component \in ComponentNames
    /\ template \in Templates
    /\ ws = <<>> /\ header_cell = NoCell /\ row_i = 0 /\ output = NoFile
    /\ IdleClean /\ IdleJob

NextFill == FillLoad \/ FillHeader \/ FillRow \/ FillSave

SpecFill == InitFill /\ [][NextFill]_vars

SevenNames == {SevenFields[i] : i \in 1..7}

\* C3: in the saved workbook record i (from 0) of a table under the seven
\* names is in row 6 + i, its seven fields in columns 2..8 in the documented
\* order.
C3_RecordsInRowsFromSix ==
    (output.saved /\ \A i \in 1..Len(test_cases) : DOMAIN test_cases[i] = SevenNames)
        => \A i \in 1..Len(test_cases) : \A k \in 1..7 :
               CellValue(output.cells, <<5 + i, 1 + k>>)
                   = StrVal(test_cases[i][SevenFields[k]])

C3_Witness ==
    /\ output.saved
    /\ Len(test_cases) = 2
    /\ \A i \in 1..Len(test_cases) : DOMAIN test_cases[i] = SevenNames
    /\ CellValue(template.cells, <<6, 2>>).str
    /\ CellValue(output.cells, <<7, 2>>) = StrVal(<<"2">>)
    /\ CellValue(output.cells, <<6, 4>>) = StrVal(<<"b", NL, "c">>)

\* the cells of rows 1..9, columns 1..11 of the template that start, in any
\* case, with "component:"
LabelCells ==
    {rc \in (1..9) \X (1..11) :
        /\ rc \in DOMAIN template.cells
        /\ template.cells[rc].str
        /\ Len(template.cells[rc].v) >= 2
        /\ Lower(template.cells[rc].v[1]) = "component"
        /\ template.cells[rc].v[2] = ":"}

\* the first of them, row by row
FirstLabelCell ==
    CHOOSE rc \in LabelCells :
        \A o \in LabelCells : rc[1] < o[1] \/ (rc[1] = o[1] /\ rc[2] <= o[2])

\* what header injection writes: the cell's own label, or a fresh one
InjectedValue ==
    StrVal(<< IF LabelCells # {} THEN template.cells[FirstLabelCell].v[1]
              ELSE "Component", ":", " " >> \o component)

\* C6: right after header injection the first label cell of the region (row
\* by row) holds its own label and the component name, or, when the region
\* has no label cell, the fallback cell E2 holds "Component: <name>"; every
\* other cell is as in the template.
C6_HeaderInjection ==
    (pc = "write_rows" /\ row_i = 0) =>
        LET target == IF LabelCells # {} THEN FirstLabelCell ELSE <<2, 5>>
        IN  /\ header_cell = target
            /\ CellValue(ws, target) = InjectedValue
            /\ \A rc \in (DOMAIN ws \cup DOMAIN template.cells) \ {target} :
                   CellValue(ws, rc) = CellValue(template.cells, rc)

C6_Witness ==
    /\ pc = "write_rows" /\ row_i = 0
    /\ Cardinality(LabelCells) = 2
    /\ FirstLabelCell = <<2, 5>>
    /\ CellValue(ws, <<2, 5>>) = StrVal(<<"COMPONENT", ":", " ", "L", " ", "M">>)
    /\ CellValue(ws, <<3, 2>>) = StrVal(<<"Component", ":", " ", "o">>)

C6_WitnessFallback ==
    /\ pc = "write_rows" /\ row_i = 0
    /\ LabelCells = {}
    /\ CellValue(template.cells, <<10, 1>>) = StrVal(<<"Component", ":", " ", "o">>)
    /\ CellValue(ws, <<2, 5>>) = StrVal(<<"Component", ":", " ", "Unknown">>)

\* C10: in the saved workbook the cell that received the component name (the
\* first label cell of rows 1..9, columns 1..11, or the fallback cell E2)
\* still holds "<label>: <name>": writing the records did not overwrite it.
C10_HeaderSurvivesRows ==
    output.saved => CellValue(output.cells, header_cell) = InjectedValue

----------------------------------------------------------------------------
(* generate_testcases: the whole job *)

DocumentUnreadable == "Package not found."
MissingKey == "Missing Anthropic API key. Set ANTHROPIC_API_KEY environment variable."
RequestTimeout == "requests.exceptions.Timeout"
HttpError == "requests.exceptions.HTTPError"

NoKey == "<unset>"          \* os.getenv returns None
TimedOut == -1

\* extract_srs_text: the paragraphs whose stripped text is not empty, joined
\* by line breaks
NonBlank(para) == strip(para) # <<>>

extract_srs_text(paras) == Join(SelectSeq(paras, NonBlank))

\* the text blocks of result["content"], joined by line breaks
IsTextBlock(block) == block.type = "text"

join_text_blocks(content) ==
    LET texts == SelectSeq(content, IsTextBlock)
    IN  Join([i \in 1..Len(texts) |-> texts[i].text])

\* response.raise_for_status() raises
raises_for_status(status) == status >= 400 /\ status < 600

\* the paragraphs of the documents a job may be given
Documents ==
    { << <<"p">>, <<" ">>, <<"q">> >>, << <<>>, <<"p">> >> }

TextBlock(t) == [type |-> "text", text |-> t]
OtherBlock == [type |-> "tool_use", text |-> <<"u">>]

ComponentLine == <<"Component", ":", " ", "L">>

\* the bodies a 200 answer carries
Contents ==
    { << TextBlock(Join(<<ComponentLine, <<>>, HeaderLine, SepLine, RowA>>)) >>,
      << TextBlock(ComponentLine), OtherBlock,
         TextBlock(Join(<<HeaderLine, SepLine, RowA, Row6, RowB>>)) >>,
      << TextBlock(Join(<<HeaderLine, SepLine, RowB>>)) >>,
      << OtherBlock >>,
      << TextBlock(Join(<<ComponentLine, HeaderLine, SepLine>>)) >>,
      << TextBlock(Join(<<HeaderLine, SepLine, Row6>>)) >> }

\* what requests.post can come back with: a timeout, or a status and a body
HttpOutcomes ==
    {[status |-> TimedOut, content |-> <<>>]}
        \cup {[status |-> st, content |-> <<>>] : st \in {429, 500}}
        \cup {[status |-> 200, content |-> c] : c \in Contents}

JobTemplates ==
    { [sheet |-> FALSE, cells |-> <<>>],
      [sheet |-> TRUE, cells |-> <<>>],
      [sheet |-> TRUE,
       cells |-> [rc \in {<<3, 2>>} |-> StrVal(<<"Component", ":", " ", "o">>)]] }

Init ==
    /\ pc = "extract_srs_text"
    /\ doc_ok \in BOOLEAN
    /\ api_key \in {NoKey, "", "sk"}
    /\ template \in JobTemplates
    /\ srs_text = <<>> /\ requests = 0 /\ http = 0 /\ trace = <<>> /\ err = ""
    /\ md_full = <<>> /\ component = <<>> /\ test_cases = <<>>
    /\ ws = <<>> /\ header_cell = NoCell /\ row_i = 0 /\ output = NoFile
    /\ IdleClean

\* srs_text = extract_srs_text(srs_path)
ExtractSrsText ==
    /\ pc = "extract_srs_text"
    /\ trace' = Append(trace, "extract_srs_text")
    /\ IF doc_ok
       THEN /\ \E paras \in Documents : srs_text' = extract_srs_text(paras)
            /\ pc' = "get_testcases_from_claude"
            /\ err' = err
       ELSE /\ err' = DocumentUnreadable
            /\ pc' = "failed"
            /\ srs_text' = srs_text
    /\ UNCHANGED <<cell_in, cleaned, prev_cleaned, calls, md_full, component,
                   test_cases, template, ws, header_cell, row_i, output, doc_ok,
                   api_key, requests, http>>

\* a client that sends the request again after a failure
GetTestcasesWithRetry ==
    /\ pc = "get_testcases_from_claude"
    /\ trace' = Append(trace, "get_testcases_from_claude")
    /\ IF api_key = NoKey \/ api_key = ""
       THEN /\ err' = MissingKey
            /\ pc' = "failed"
            /\ UNCHANGED <<requests, http, md_full>>
       ELSE \E o \in HttpOutcomes :
                /\ http' = o.status
                /\ IF o.status = TimedOut \/ raises_for_status(o.status)
                   THEN /\ requests' = requests + 2
                        /\ err' = IF o.status = TimedOut THEN RequestTimeout ELSE HttpError
                        /\ pc' = "failed"
                        /\ md_full' = md_full
                   ELSE /\ requests' = requests + 1
                        /\ md_full' = join_text_blocks(o.content)
                        /\ pc' = "extract_component"
                        /\ err' = err
    /\ UNCHANGED <<cell_in, cleaned, prev_cleaned, calls, component, test_cases,
                   template, ws, header_cell, row_i, output, doc_ok, srs_text,
                   api_key>>

\* md_full = get_testcases_from_claude(srs_text)
GetTestcases ==
    /\ pc = "get_testcases_from_claude"
    /\ trace' = Append(trace, "get_testcases_from_claude")
    /\ IF api_key = NoKey \/ api_key = ""
       THEN /\ err' = MissingKey
            /\ pc' = "failed"
            /\ UNCHANGED <<requests, http, md_full>>
       ELSE \E o \in HttpOutcomes :
                /\ requests' = requests + 1
                /\ http' = o.status
                /\ IF o.status = TimedOut
                   THEN err' = RequestTimeout /\ pc' = "failed" /\ md_full' = md_full
                   ELSE IF raises_for_status(o.status)
                   THEN err' = HttpError /\ pc' = "failed" /\ md_full' = md_full
                   ELSE /\ md_full' = join_text_blocks(o.content)
                        /\ pc' = "extract_component"
                        /\ err' = err
    /\ UNCHANGED <<cell_in, cleaned, prev_cleaned, calls, component, test_cases,
                   template, ws, header_cell, row_i, output, doc_ok, srs_text,
                   api_key>>

Next ==
    \/ ExtractSrsText
    \/ GetTestcases
    \/ ExtractComponent
    \/ ParseTable
    \/ FillLoad
    \/ FillHeader
    \/ FillRow
    \/ FillSave

Spec == Init /\ [][Next]_vars

StageOrder ==
    <<"extract_srs_text", "get_testcases_from_claude", "extract_component",
      "parse_markdown_table", "fill_excel_template">>

\* the stage that raises each error
StageOfError(e) ==
    CASE e = DocumentUnreadable -> "extract_srs_text"
      [] e \in {MissingKey, RequestTimeout, HttpError} -> "get_testcases_from_claude"
      [] e \in {HeaderNotFound, IncompleteTable, NoTestCases} -> "parse_markdown_table"
      [] e = NoSheet -> "fill_excel_template"

\* C5: the stages are entered in the fixed order; a stage that fails is the
\* last one entered and ends the job; the output workbook exists only after
\* all five stages were entered and none failed.
C5_FailFastNoPartialOutput ==
    /\ Len(trace) <= Len(StageOrder)
    /\ \A i \in 1..Len(trace) : trace[i] = StageOrder[i]
    /\ err # "" => /\ pc = "failed"
                   /\ ~output.saved
                   /\ trace[Len(trace)] = StageOfError(err)
    /\ pc = "failed" => err # ""
    /\ (~doc_ok /\ trace # <<>>) => err = DocumentUnreadable
    /\ (~template.sheet /\ Len(trace) = 5) => err = NoSheet
    /\ output.saved => err = "" /\ trace = StageOrder /\ pc = "done"

C5_Witness ==
    /\ pc = "failed" /\ err = NoTestCases
    /\ template.sheet /\ doc_ok
    /\ Len(trace) = 4 /\ ~output.saved /\ ws = <<>>

Requested == Len(trace) >= 2

\* C7: without a key the client raises the missing-key error and issues no
\* request; with a key it issues exactly one request, whatever comes back;
\* a timeout or a 4xx/5xx status ends in an error and no text is returned.
C7_OneRequestKeyFirst ==
    /\ requests <= 1
    /\ ~Requested => requests = 0
    /\ (Requested /\ api_key \in {NoKey, ""})
           => requests = 0 /\ err = MissingKey /\ http = 0
    /\ (Requested /\ api_key \notin {NoKey, ""}) => requests = 1 /\ http # 0
    /\ (http # 0 /\ http # 200)
           => err \in {RequestTimeout, HttpError} /\ md_full = <<>> /\ pc = "failed"

C7_Witness ==
    /\ Requested /\ api_key = "sk" /\ http = 429
    /\ requests = 1 /\ err = HttpError /\ pc = "failed"

====
